---------------------------- MODULE Spec2Model ----------------------------
(***************************************************************************)
(* Model of src/src/main.py: MyService.process (descriptor parsing, the    *)
(* single POST to the inference API, the `error` check and the response    *)
(* shaping) and lifespan.announce (the startup announce loop).             *)
(*                                                                         *)
(* Python values are tagged pairs <<tag, payload>>:                        *)
(*   <<"null", <<>>>>  <<"num", n>>  <<"str", chars>>                      *)
(*   <<"list", <<v1, ..., vn>>>>  <<"obj", << <<key, v>>, ... >>>>         *)
(* A Python str is the sequence of its characters, so that `in` on a str   *)
(* is the substring test it is in Python; a dict is the sequence of its    *)
(* (key, value) pairs in insertion order, which is the order json.dumps    *)
(* writes them in.                                                         *)
(***************************************************************************)
EXTENDS Integers, Sequences, FiniteSets, TLC

VARIABLES
    pc,               \* position of process(): idle, parse, post, check, shape, return, done, failed
    blob,             \* data['json_description'].data, the descriptor as received
    json_description, \* the parsed descriptor (line 86)
    content,          \* result_data.content, the body the remote API answered
    posts,            \* outbound POSTs made by the current invocation
    flat_list,        \* flatten_list's result in the current invocation (line 121)
    output,           \* the local `output` (lines 117-127)
    result,           \* the returned {"result": TaskData(...)} (lines 129-132)
    error,            \* the exception process() raised, <<kind, detail>>
    settings,         \* engine_announce_retries and the number of engine_urls
    apc,              \* position of announce(): start, for, while, call, failed, done
    retries,          \* the local `retries` (line 161)
    engine,           \* index in settings.engine_urls of the for loop (line 162)
    announced,        \* the local `announced` (line 163)
    calls,            \* announce_service calls made, per engine url
    sleeps,           \* time.sleep calls made (line 168)
    warnings          \* abort warnings logged (line 170)

procVars == <<pc, blob, json_description, content, posts, flat_list, output, result, error>>
annVars == <<apc, retries, engine, announced, calls, sleeps, warnings>>
vars == <<procVars, settings, annVars>>

-----------------------------------------------------------------------------
(* Python values *)

Null == <<"null", <<>>>>
Num(n) == <<"num", n>>
Str(s) == <<"str", s>>
List(l) == <<"list", l>>
Obj(items) == <<"obj", items>>
Tag(x) == x[1]
Val(x) == x[2]

\* A body (or descriptor blob) that json.loads rejects.
NotJson == <<"notjson", <<>>>>
\* No value: a local not yet assigned.
Unset == <<"unset", <<>>>>

S_k == <<"k">>
S_error == <<"e", "r", "r", "o", "r">>
S_a_cat == <<"a", " ", "c", "a", "t">>
S_api_token == <<"api_token">>
S_api_url == <<"api_url">>
S_desired_output == <<"desired_output">>
S_token == <<"hf_x">>
S_url == <<"https://api-inference.huggingface.co/models/m">>

\* key in dict
HasKey(d, key) == \E i \in 1..Len(Val(d)) : Val(d)[i][1] = key
\* dict[key], for a key the dict has
Lookup(d, key) == Val(d)[CHOOSE i \in 1..Len(Val(d)) : Val(d)[i][1] = key][2]

\* a in b for two Python strs: substring
IsSubstr(a, b) ==
    \E i \in 0..(Len(b) - Len(a)) : SubSeq(b, i + 1, i + Len(a)) = a

\* Whether Python's `key in x` is defined (x is a container); it raises
\* TypeError on None and on numbers.
Iterable(x) == Tag(x) \in {"obj", "list", "str"}

\* Python's `key in x` for a str key and a container x.
PyIn(key, x) ==
    CASE Tag(x) = "obj" -> HasKey(x, key)
      [] Tag(x) = "list" -> \E i \in 1..Len(Val(x)) : Val(x)[i] = Str(key)
      [] Tag(x) = "str" -> IsSubstr(key, Val(x))
      [] OTHER -> FALSE

\* Python's x[key] for a str key: <<"ok", value>> or <<"raise", kind>>.
PyGetItem(x, key) ==
    IF Tag(x) = "obj"
    THEN IF HasKey(x, key) THEN <<"ok", Lookup(x, key)>> ELSE <<"raise", "KeyError">>
    ELSE <<"raise", "TypeError">>

-----------------------------------------------------------------------------
(* json.dumps(value, indent=4) *)

Indent == 4

DigitChars == <<"0", "1", "2", "3", "4", "5", "6", "7", "8", "9">>

RECURSIVE NatChars(_)
NatChars(n) ==
    IF n < 10 THEN <<DigitChars[n + 1]>>
    ELSE NatChars(n \div 10) \o <<DigitChars[(n % 10) + 1]>>

IntChars(n) == IF n < 0 THEN <<"-">> \o NatChars(-n) ELSE NatChars(n)

RECURSIVE Spaces(_)
Spaces(n) == IF n <= 0 THEN <<>> ELSE <<" ">> \o Spaces(n - 1)

\* "\n" followed by the indentation of a nesting level
NewlineIndent(indent, level) == <<"\n">> \o Spaces(indent * level)

\* json's string escaping of the quote and the backslash
RECURSIVE Escape(_)
Escape(s) ==
    IF s = <<>> THEN <<>>
    ELSE (IF Head(s) \in {"\"", "\\"} THEN <<"\\", Head(s)>> ELSE <<Head(s)>>)
         \o Escape(Tail(s))

Quote(s) == <<"\"">> \o Escape(s) \o <<"\"">>

RECURSIVE Encode(_, _, _), EncodeItems(_, _, _, _)
Encode(x, indent, level) ==
    CASE Tag(x) = "null" -> <<"n", "u", "l", "l">>
      [] Tag(x) = "num" -> IntChars(Val(x))
      [] Tag(x) = "str" -> Quote(Val(x))
      [] Tag(x) = "list" ->
            IF Val(x) = <<>> THEN <<"[", "]">>
            ELSE <<"[">> \o NewlineIndent(indent, level + 1)
                 \o EncodeItems(Val(x), FALSE, indent, level + 1)
                 \o NewlineIndent(indent, level) \o <<"]">>
      [] Tag(x) = "obj" ->
            IF Val(x) = <<>> THEN <<"{", "}">>
            ELSE <<"{">> \o NewlineIndent(indent, level + 1)
                 \o EncodeItems(Val(x), TRUE, indent, level + 1)
                 \o NewlineIndent(indent, level) \o <<"}">>

\* the items of a list or dict, separated by "," and a new line
EncodeItems(items, isDict, indent, level) ==
    LET first == IF isDict
                 THEN Quote(Head(items)[1]) \o <<":", " ">>
                      \o Encode(Head(items)[2], indent, level)
                 ELSE Encode(Head(items), indent, level)
    IN  IF Len(items) = 1 THEN first
        ELSE first \o <<",">> \o NewlineIndent(indent, level)
             \o EncodeItems(Tail(items), isDict, indent, level)

\* Dumps with an indent of 2
Dumps_indent2(x) == Str(Encode(x, 2, 0))

\* json.dumps(x, indent=4): a Python str
Dumps(x) == Str(Encode(x, Indent, 0))

\* The characters of a Python str as one string
RECURSIVE Text(_)
Text(s) == IF s = <<>> THEN "" ELSE Head(s) \o Text(Tail(s))

-----------------------------------------------------------------------------
(* The inputs of process(): descriptors and remote answers *)

MaxLen == 2

RECURSIVE SeqsUpTo(_, _)
SeqsUpTo(S, n) ==
    IF n = 0 THEN {<<>>}
    ELSE LET shorter == SeqsUpTo(S, n - 1)
         IN  shorter \cup {Append(s, x) : s \in {t \in shorter : Len(t) = n - 1}, x \in S}

\* Descriptor objects: any of api_token, api_url, desired_output, in this order
DescriptorObjects ==
    {Obj(SelectSeq(<< <<S_api_token, Str(S_token)>>, <<S_api_url, Str(S_url)>>,
                      <<S_desired_output, Str(d)>> >>,
                   LAMBDA item : item[1] \in keep)) :
        keep \in SUBSET {S_api_token, S_api_url, S_desired_output},
        d \in {S_k, S_error}}

\* What data['json_description'].data can hold: bytes that are no JSON, JSON
\* that is no object, and descriptor objects
Blobs ==
    {NotJson, Null, List(<<Str(S_api_token), Str(S_api_url)>>)} \cup DescriptorObjects

\* JSON objects the remote API may answer
ResponseObjects ==
    {Obj(<<>>)}
    \cup {Obj(<< <<key, v>> >>) : key \in {S_k, S_error}, v \in {Num(1), Str(S_a_cat)}}
    \cup {Obj(<< <<S_k, v>>, <<S_error, w>> >>) : v, w \in {Num(1), Str(S_a_cat)}}
    \cup {Obj(<< <<S_error, Str(S_a_cat)>>, <<S_k, Num(1)>> >>),
          Obj(<< <<S_k, Obj(<< <<S_k, Num(1)>> >>)>> >>)}

\* Elements of a JSON array the remote API may answer
Elements ==
    {Num(1), Null, Str(S_k), Str(S_error),
     Obj(<< <<S_k, Num(1)>> >>), Obj(<< <<S_k, Num(2)>> >>),
     Obj(<< <<S_error, Num(1)>> >>),
     List(<<>>), List(<< Obj(<< <<S_k, Num(1)>> >>) >>),
     List(<< Obj(<< <<S_k, Num(2)>> >>), Obj(<< <<S_error, Num(1)>> >>) >>),
     List(<< List(<< Obj(<< <<S_k, Num(1)>> >>) >>) >>),
     List(<< List(<< Str(S_k) >>) >>)}

ResponseLists == {List(l) : l \in SeqsUpTo(Elements, MaxLen)}

\* Bodies the remote API may answer: no JSON at all, a JSON scalar, object or array
Bodies ==
    {NotJson, Null, Num(1), Str(S_a_cat), Str(S_error)}
    \cup ResponseObjects \cup ResponseLists

-----------------------------------------------------------------------------
(* MyService.process *)

NoError == <<"none", Unset>>
NoResult == [data |-> Unset, type |-> "none"]
Msg(text) == <<"msg", text>>

\* json.loads of a blob or of a body: <<"ok", value>> or <<"raise", "ValueError">>
Loads(b) == IF b = NotJson THEN <<"raise", "ValueError">> ELSE <<"ok", b>>

\* is_valid_json (lines 78-83)
is_valid_json(json_string) == Loads(json_string)[1] = "ok"

\* ParseDescriptor reading the keys with .get(): a missing key goes unnoticed
ParseDescriptor_lenient(b) ==
    LET parsed == Loads(b)
    IN  IF parsed[1] = "raise"
        THEN <<"raise", "Exception", Msg("json_description is invalid")>>
        ELSE IF Tag(parsed[2]) = "obj" THEN <<"ok", parsed[2]>>
        ELSE <<"raise", "TypeError", Msg("subscript")>>

\* Lines 85-92: <<"ok", json_description>> or <<"raise", kind, detail>>.  A
\* ValueError or a KeyError is caught and raised again as Exception; the
\* TypeError of subscripting a descriptor that is no object is not caught.
ParseDescriptor(b) ==
    LET parsed == Loads(b)
    IN  IF parsed[1] = "raise"
        THEN <<"raise", "Exception", Msg("json_description is invalid")>>
        ELSE LET api_token == PyGetItem(parsed[2], S_api_token)
                 api_url == PyGetItem(parsed[2], S_api_url)
                 failed == IF api_token[1] = "raise" THEN api_token ELSE api_url
             IN  IF failed[1] = "ok" THEN <<"ok", parsed[2]>>
                 ELSE IF failed[2] = "KeyError"
                 THEN <<"raise", "Exception",
                        Msg("api_url or api_token missing from json_description")>>
                 ELSE <<"raise", failed[2], Msg("subscript")>>

\* flatten_list flattening every level
RECURSIVE flatten_list_deep(_)
flatten_list_deep(lst) ==
    IF lst = <<>> THEN <<>>
    ELSE (IF Tag(Head(lst)) = "list"
          THEN flatten_list_deep(Val(Head(lst)))
          ELSE <<Head(lst)>>) \o flatten_list_deep(Tail(lst))

\* flatten_list (lines 96-103), the loop from item i on
RECURSIVE FlattenLoop(_, _, _)
FlattenLoop(lst, i, flattened_list) ==
    IF i > Len(lst) THEN flattened_list
    ELSE FlattenLoop(lst, i + 1,
                     IF Tag(lst[i]) = "list"
                     THEN flattened_list \o Val(lst[i])
                     ELSE Append(flattened_list, lst[i]))

flatten_list(lst) == FlattenLoop(lst, 1, <<>>)

\* ErrorCheck raising Exception('error'), the key instead of the value under it
ErrorCheck_key(body) ==
    IF ~is_valid_json(body) THEN <<"ok">>
    ELSE LET data == Loads(body)[2]
         IN  IF ~Iterable(data) THEN <<"raise", "TypeError", Msg("not iterable")>>
             ELSE IF ~PyIn(S_error, data) THEN <<"ok">>
             ELSE <<"raise", "Exception", Str(S_error)>>

\* Lines 112-115: <<"ok">> when the check passes, or <<"raise", kind, detail>>
ErrorCheck(body) ==
    IF ~is_valid_json(body) THEN <<"ok">>
    ELSE LET data == Loads(body)[2]
         IN  IF ~Iterable(data) THEN <<"raise", "TypeError", Msg("not iterable")>>
             ELSE IF ~PyIn(S_error, data) THEN <<"ok">>
             ELSE LET message == PyGetItem(data, S_error)
                  IN  IF message[1] = "ok"
                      THEN <<"raise", "Exception", message[2]>>
                      ELSE <<"raise", message[2], Msg("subscript")>>

\* OutputList putting each new element in front
RECURSIVE OutputList_prepend(_, _, _, _)
OutputList_prepend(flat, i, desired_output, output_list) ==
    IF i > Len(flat) THEN <<"ok", output_list>>
    ELSE IF ~Iterable(flat[i]) THEN <<"raise", "TypeError">>
    ELSE IF ~PyIn(desired_output, flat[i])
    THEN OutputList_prepend(flat, i + 1, desired_output, output_list)
    ELSE LET value == PyGetItem(flat[i], desired_output)
         IN  IF value[1] = "raise" THEN value
             ELSE OutputList_prepend(flat, i + 1, desired_output,
                     <<Obj(<< <<desired_output, value[2]>> >>)>> \o output_list)

\* The list comprehension of lines 123-124, from element i on:
\* <<"ok", output_list>> or <<"raise", kind>>
RECURSIVE OutputList(_, _, _, _)
OutputList(flat, i, desired_output, output_list) ==
    IF i > Len(flat) THEN <<"ok", output_list>>
    ELSE IF ~Iterable(flat[i]) THEN <<"raise", "TypeError">>
    ELSE IF ~PyIn(desired_output, flat[i])
    THEN OutputList(flat, i + 1, desired_output, output_list)
    ELSE LET value == PyGetItem(flat[i], desired_output)
         IN  IF value[1] = "raise" THEN value
             ELSE OutputList(flat, i + 1, desired_output,
                             Append(output_list, Obj(<< <<desired_output, value[2]>> >>)))

\* Extract serializing the value it finds
Extract_dumped(response, desired_output) ==
    LET value == PyGetItem(response, desired_output)
    IN  IF value[1] = "ok" THEN <<"ok", Dumps(value[2])>> ELSE value

\* Line 127: result_data.json()[desired_output]
Extract(response, desired_output) == PyGetItem(response, desired_output)

\* Lines 117-127: <<"ok", output, flat_list>> or <<"raise", kind, detail, flat_list>>,
\* flat_list being Unset when flatten_list was not called
Shape(jd, body) ==
    LET decoded == Loads(body)
    IN  IF decoded[1] = "raise"
        THEN <<"raise", "JSONDecodeError", Msg("response is not JSON"), Unset>>
        ELSE IF ~PyIn(S_desired_output, jd)
        THEN <<"ok", Dumps(decoded[2]), Unset>>
        ELSE LET desired_output == Val(Lookup(jd, S_desired_output))
             IN  IF Tag(decoded[2]) = "list"
                 THEN LET flat == flatten_list(Val(decoded[2]))
                          listed == OutputList(flat, 1, desired_output, <<>>)
                      IN  IF listed[1] = "ok"
                          THEN <<"ok", Dumps(List(listed[2])), List(flat)>>
                          ELSE <<"raise", listed[2], Msg("element"), List(flat)>>
                 ELSE LET value == Extract(decoded[2], desired_output)
                      IN  IF value[1] = "ok"
                          THEN <<"ok", value[2], Unset>>
                          ELSE <<"raise", value[2], Str(desired_output), Unset>>

\* AfterErrorCheck posting again when the remote answered an error
AfterErrorCheck_retry(checked) == IF checked[1] = "ok" THEN "shape" ELSE "post"

\* Where process() goes after the check of lines 112-115
AfterErrorCheck(checked) == IF checked[1] = "ok" THEN "shape" ELSE "failed"

\* The task runtime calls process(data) with a descriptor blob.
Invoke(b) ==
    /\ pc \in {"idle", "done", "failed"}
    /\ pc' = "parse"
    /\ blob' = b
    /\ json_description' = Unset
    /\ content' = Unset
    /\ posts' = 0
    /\ flat_list' = Unset
    /\ output' = Unset
    /\ result' = NoResult
    /\ error' = NoError
    /\ UNCHANGED <<settings, annVars>>

\* Lines 85-94
Parse ==
    /\ pc = "parse"
    /\ LET parsed == ParseDescriptor(blob)
       IN  IF parsed[1] = "ok"
           THEN /\ json_description' = parsed[2]
                /\ pc' = "post"
                /\ error' = error
           ELSE /\ json_description' = json_description
                /\ pc' = "failed"
                /\ error' = <<parsed[2], parsed[3]>>
    /\ UNCHANGED <<blob, content, posts, flat_list, output, result, settings, annVars>>

\* Lines 105-110: requests.post answers with a body
Post(body) ==
    /\ pc = "post"
    /\ posts' = posts + 1
    /\ content' = body
    /\ pc' = "check"
    /\ UNCHANGED <<blob, json_description, flat_list, output, result, error,
                   settings, annVars>>

\* Lines 105-110: requests.post raises (connection refused, malformed HTTP)
PostFails ==
    /\ pc = "post"
    /\ posts' = posts + 1
    /\ pc' = "failed"
    /\ error' = <<"RequestException", Msg("transport")>>
    /\ UNCHANGED <<blob, json_description, content, flat_list, output, result,
                   settings, annVars>>

\* Lines 112-115
Check ==
    /\ pc = "check"
    /\ LET checked == ErrorCheck(content)
       IN  /\ pc' = AfterErrorCheck(checked)
           /\ error' = IF checked[1] = "ok" THEN error ELSE <<checked[2], checked[3]>>
    /\ UNCHANGED <<blob, json_description, content, posts, flat_list, output, result,
                   settings, annVars>>

\* Lines 117-127
ShapeOutput ==
    /\ pc = "shape"
    /\ LET shaped == Shape(json_description, content)
       IN  IF shaped[1] = "ok"
           THEN /\ output' = shaped[2]
                /\ flat_list' = shaped[3]
                /\ pc' = "return"
                /\ error' = error
           ELSE /\ output' = output
                /\ flat_list' = shaped[4]
                /\ pc' = "failed"
                /\ error' = <<shaped[2], shaped[3]>>
    /\ UNCHANGED <<blob, json_description, content, posts, result, settings, annVars>>

\* Lines 129-132
Return ==
    /\ pc = "return"
    /\ result' = [data |-> output, type |-> "APPLICATION_JSON"]
    /\ pc' = "done"
    /\ UNCHANGED <<blob, json_description, content, posts, flat_list, output, error,
                   settings, annVars>>

-----------------------------------------------------------------------------
(* lifespan.announce *)

MaxRetries == 3
MaxEngines == 3

Engines == 1..settings.engines

\* WhileCondition not reading `announced`
WhileCondition_untilExhausted(isAnnounced, left) == left > 0

\* Line 164: the condition of the while loop
WhileCondition(isAnnounced, left) == ~isAnnounced /\ left > 0

\* RetriesForEngine giving every engine url the full count again
RetriesForEngine_reset(left) == settings.retries

\* Lines 161-163: `retries` is assigned before the for loop and an engine url
\* starts with the value the previous one left
RetriesForEngine(left) == left

RECURSIVE SumLen(_, _)
SumLen(f, n) == IF n = 0 THEN 0 ELSE Len(f[n]) + SumLen(f, n - 1)

\* announce_service calls made so far, over all engine urls
TotalCalls == SumLen(calls, settings.engines)

RECURSIVE CountFalse(_)
CountFalse(s) ==
    IF s = <<>> THEN 0 ELSE (IF Head(s) THEN 0 ELSE 1) + CountFalse(Tail(s))

RECURSIVE SumFalse(_, _)
SumFalse(f, n) == IF n = 0 THEN 0 ELSE CountFalse(f[n]) + SumFalse(f, n - 1)

\* announce_service calls that returned False so far
FailedCalls == SumFalse(calls, settings.engines)

\* Line 161
AnnounceStart ==
    /\ apc = "start"
    /\ retries' = settings.retries
    /\ engine' = 1
    /\ apc' = "for"
    /\ UNCHANGED <<procVars, settings, announced, calls, sleeps, warnings>>

\* Lines 162-163: the next engine url, or the end of the loop
ForEngine ==
    /\ apc = "for"
    /\ IF engine \in Engines
       THEN /\ announced' = FALSE
            /\ retries' = RetriesForEngine(retries)
            /\ apc' = "while"
       ELSE /\ apc' = "done"
            /\ UNCHANGED <<announced, retries>>
    /\ UNCHANGED <<procVars, settings, engine, calls, sleeps, warnings>>

\* Line 164
While ==
    /\ apc = "while"
    /\ IF WhileCondition(announced, retries)
       THEN /\ apc' = "call"
            /\ engine' = engine
       ELSE /\ apc' = "for"
            /\ engine' = engine + 1
    /\ UNCHANGED <<procVars, settings, retries, announced, calls, sleeps, warnings>>

\* Lines 165-167: announce_service answers ok
AnnounceService(ok) ==
    /\ apc = "call"
    /\ announced' = ok
    /\ calls' = [calls EXCEPT ![engine] = Append(@, ok)]
    /\ retries' = retries - 1
    /\ apc' = IF ok THEN "while" ELSE "failed"
    /\ UNCHANGED <<procVars, settings, engine, sleeps, warnings>>

\* Lines 168-173
SleepAndWarn ==
    /\ apc = "failed"
    /\ sleeps' = sleeps + 1
    /\ warnings' = IF retries = 0 THEN warnings + 1 ELSE warnings
    /\ apc' = "while"
    /\ UNCHANGED <<procVars, settings, retries, engine, announced, calls>>

-----------------------------------------------------------------------------
(* Specifications *)

ProcInit ==
    /\ pc = "idle"
    /\ blob = Unset
    /\ json_description = Unset
    /\ content = Unset
    /\ posts = 0
    /\ flat_list = Unset
    /\ output = Unset
    /\ result = NoResult
    /\ error = NoError

AnnInit ==
    /\ apc = "start"
    /\ retries = 0
    /\ engine = 0
    /\ announced = FALSE
    /\ calls = [e \in Engines |-> <<>>]
    /\ sleeps = 0
    /\ warnings = 0

\* The service handling tasks
Init ==
    /\ settings = [retries |-> MaxRetries, engines |-> MaxEngines]
    /\ ProcInit
    /\ AnnInit

Next ==
    \/ \E b \in Blobs : Invoke(b)
    \/ Parse
    \/ \E body \in Bodies : Post(body)
    \/ PostFails
    \/ Check
    \/ ShapeOutput
    \/ Return

Spec == Init /\ [][Next]_vars

\* The startup announce routine, for every setting within the bounds
AnnounceInit ==
    /\ settings \in [retries : 0..MaxRetries, engines : 0..MaxEngines]
    /\ ProcInit
    /\ AnnInit

AnnounceNext ==
    \/ AnnounceStart
    \/ ForEngine
    \/ While
    \/ \E ok \in BOOLEAN : AnnounceService(ok)
    \/ SleepAndWarn

AnnounceSpec == AnnounceInit /\ [][AnnounceNext]_vars

\* announce() is a scheduled coroutine: it keeps running until it returns
LiveAnnounceSpec == AnnounceSpec /\ WF_vars(AnnounceNext)

-----------------------------------------------------------------------------
(* Properties of process() *)

\* The descriptor has the two keys process() requires
ValidDescriptor(b) ==
    Tag(b) = "obj" /\ HasKey(b, S_api_token) /\ HasKey(b, S_api_url)

DesiredGiven == HasKey(json_description, S_desired_output)
Desired == Val(Lookup(json_description, S_desired_output))

\* process() is past the `error` check of the answer it received
Checked == pc \in {"shape", "return", "done", "failed"}
\* process() is past the shaping of the answer it received
Shaped == pc \in {"return", "done", "failed"}

K1 == Obj(<< <<S_k, Num(1)>> >>)
K2 == Obj(<< <<S_k, Num(2)>> >>)

\* C1: once process() has checked an answer that is a JSON object with the key
\* `error`, it has failed with Exception(answer['error']) and has produced no
\* output and no result, whatever the descriptor's desired_output is.
C1_RemoteErrorRaised ==
    (Checked /\ Tag(content) = "obj" /\ HasKey(content, S_error))
        => /\ pc = "failed"
           /\ error = <<"Exception", Lookup(content, S_error)>>
           /\ output = Unset
           /\ result = NoResult

C1_Witness ==
    /\ pc = "failed"
    /\ content = Obj(<< <<S_k, Num(1)>>, <<S_error, Str(S_a_cat)>> >>)
    /\ DesiredGiven /\ Desired = S_error
    /\ error = <<"Exception", Str(S_a_cat)>>

NoElementHasKey ==
    \A i \in 1..Len(Val(flat_list)) :
        ~(Tag(Val(flat_list)[i]) = "obj" /\ HasKey(Val(flat_list)[i], Desired))

\* C3: when the answer is a JSON array, desired_output is given and no element
\* of the flattened array has desired_output as a key, process() succeeds with
\* the empty JSON array as output, whatever the elements are.
C3_NoMatchGivesEmptyArray ==
    (Shaped /\ Tag(content) = "list" /\ DesiredGiven /\ Tag(flat_list) = "list"
       /\ NoElementHasKey)
        => /\ pc # "failed"
           /\ output = Str(<<"[", "]">>)

\* C4: when the answer is a JSON array of objects that all have the key
\* desired_output, the output is the serialized array of {desired_output:
\* element[desired_output]}, one per element of the answer, in its order.
C4_ProjectionKeepsOrder ==
    (Shaped /\ Tag(content) = "list" /\ DesiredGiven
       /\ \A i \in 1..Len(Val(content)) :
             Tag(Val(content)[i]) = "obj" /\ HasKey(Val(content)[i], Desired))
        => /\ pc # "failed"
           /\ output = Dumps(List([i \in 1..Len(Val(content)) |->
                          Obj(<< <<Desired, Lookup(Val(content)[i], Desired)>> >>)]))
           /\ (content = List(<<K2, K1>>) =>
                 Text(Val(output)) =
                   "[\n    {\n        \"k\": 2\n    },\n    {\n        \"k\": 1\n    }\n]")
           /\ (pc = "done" => result = [data |-> output, type |-> "APPLICATION_JSON"])

C4_Witness ==
    /\ pc = "done"
    /\ content = List(<<K2, K1>>)
    /\ DesiredGiven /\ Desired = S_k
    /\ Tag(result.data) = "str"

\* C5: when the answer is a single JSON object without `error` and
\* desired_output is given, the output is the value under that key as it is
\* (neither wrapped nor serialized) when the key is there, and process() fails
\* with KeyError and no result when it is not.
C5_SingleObjectValue ==
    (Shaped /\ Tag(content) = "obj" /\ ~HasKey(content, S_error) /\ DesiredGiven)
        => IF HasKey(content, Desired)
           THEN /\ pc # "failed"
                /\ output = Lookup(content, Desired)
                /\ (content = Obj(<< <<S_k, Str(S_a_cat)>> >>) =>
                      Tag(output) = "str" /\ Text(Val(output)) = "a cat")
                /\ (pc = "done" => result.data = Lookup(content, Desired))
           ELSE /\ pc = "failed"
                /\ error[1] = "KeyError"
                /\ output = Unset
                /\ result = NoResult

C5_Witness ==
    /\ pc = "failed"
    /\ content = Obj(<< <<S_k, Str(S_a_cat)>> >>)
    /\ DesiredGiven /\ Desired = S_error
    /\ error[1] = "KeyError"

\* C6: with a valid descriptor without desired_output and an answer that is a
\* JSON object without `error`, process() succeeds and returns the 4-space
\* indented serialization of that object, typed as JSON.
C6_FullResponsePrettyPrinted ==
    (Shaped /\ Tag(content) = "obj" /\ ~HasKey(content, S_error) /\ ~DesiredGiven)
        => /\ pc # "failed"
           /\ output = Str(Encode(content, 4, 0))
           /\ (content = Obj(<<>>) => Text(Val(output)) = "{}")
           /\ (content = Obj(<< <<S_k, Str(S_a_cat)>> >>) =>
                 Text(Val(output)) = "{\n    \"k\": \"a cat\"\n}")
           /\ (content = Obj(<< <<S_k, K1>> >>) =>
                 Text(Val(output)) = "{\n    \"k\": {\n        \"k\": 1\n    }\n}")
           /\ (pc = "done" => result = [data |-> output, type |-> "APPLICATION_JSON"])

C6_Witness ==
    /\ pc = "done"
    /\ ~DesiredGiven
    /\ content = Obj(<< <<S_k, K1>> >>)
    /\ result.type = "APPLICATION_JSON"

\* C7: an invocation with a valid descriptor makes exactly one POST and never
\* a second one, whatever the answer is (an `error`, a body that is no JSON).
C7_ExactlyOnePost ==
    /\ posts <= 1
    /\ (pc \in {"parse", "post"} => posts = 0)
    /\ (ValidDescriptor(blob) /\ pc \in {"check", "shape", "return", "done", "failed"})
          => posts = 1

C7_Witness ==
    /\ pc = "failed"
    /\ posts = 1
    /\ content = Obj(<< <<S_error, Str(S_a_cat)>> >>)
    /\ error[1] = "Exception"

\* The number of elements an item of the answer contributes to the flat list
Width(item) == IF Tag(item) = "list" THEN Len(Val(item)) ELSE 1

RECURSIVE WidthUpTo(_, _)
WidthUpTo(lst, n) == IF n = 0 THEN 0 ELSE Width(lst[n]) + WidthUpTo(lst, n - 1)

\* C8: flatten_list replaces each item that is an array by that array's
\* elements, at the item's place, keeps every other item, keeps the order, and
\* leaves the arrays nested deeper as elements of the result.
C8_FlattenOneLevel ==
    Tag(flat_list) = "list" =>
        LET lst == Val(content)
            flat == Val(flat_list)
        IN  /\ Len(flat) = WidthUpTo(lst, Len(lst))
            /\ \A i \in 1..Len(lst) :
                  LET before == WidthUpTo(lst, i - 1)
                  IN  IF Tag(lst[i]) = "list"
                      THEN SubSeq(flat, before + 1, before + Len(Val(lst[i]))) = Val(lst[i])
                      ELSE flat[before + 1] = lst[i]
            /\ (lst = <<List(<<K1>>), K2>> => flat = <<K1, K2>>)
            /\ (lst = <<List(<<List(<<K1>>)>>)>> => flat = <<List(<<K1>>)>>)

C8_Witness ==
    /\ content = List(<<List(<<List(<<K1>>)>>), K2>>)
    /\ flat_list = List(<<List(<<K1>>), K2>>)
    /\ pc = "done"

-----------------------------------------------------------------------------
(* Properties of announce() *)

\* The last announce_service call made, over all engine urls, returned False
LastCallFailed ==
    \E e \in Engines :
        /\ calls[e] # <<>>
        /\ ~calls[e][Len(calls[e])]
        /\ \A later \in Engines : later > e => calls[later] = <<>>

\* What holds of announce() in every state
AnnounceSafety ==
    \* a call is made only while the engine url is not announced
    /\ apc = "call" => ~announced /\ retries > 0
    /\ \A e \in Engines : \A i \in 1..(Len(calls[e]) - 1) : ~calls[e][i]
    \* no more than engine_announce_retries attempts
    /\ TotalCalls <= settings.retries
    \* one sleep after each failed attempt
    /\ sleeps = FailedCalls - (IF apc = "failed" THEN 1 ELSE 0)
    \* the warning is logged when a failed attempt used the last retry
    /\ warnings = IF apc # "failed" /\ retries = 0 /\ LastCallFailed THEN 1 ELSE 0
    \* when every attempt failed, all the retries were made, each slept after
    /\ (apc = "done" /\ FailedCalls = TotalCalls
          /\ settings.retries > 0 /\ settings.engines > 0)
          => /\ TotalCalls = settings.retries
             /\ sleeps = settings.retries
             /\ warnings = 1

\* C9: announce() always terminates; it stops calling announce_service for an
\* engine url once a call succeeded, makes at most engine_announce_retries
\* attempts, sleeps after each failed one and logs the abort warning when a
\* failed attempt exhausts the retries.
C9_AnnounceTerminates == <>(apc = "done") /\ []AnnounceSafety

C9_Witness ==
    /\ apc = "done"
    /\ settings.retries = MaxRetries
    /\ settings.engines > 1
    /\ TotalCalls = MaxRetries
    /\ FailedCalls = MaxRetries
    /\ sleeps = MaxRetries
    /\ warnings = 1

\* C10: the retry counter is shared by the engine urls: it is never set back,
\* the calls over all engine urls never exceed engine_announce_retries, and no
\* call is made once the counter is 0, so the engine urls that remain get none.
C10_SharedRetryCounter ==
    /\ apc # "start" => retries = settings.retries - TotalCalls
    /\ TotalCalls <= settings.retries
    /\ apc = "call" => retries > 0
    /\ (apc # "start" /\ retries = 0) =>
          \A e \in Engines : e > engine => calls[e] = <<>>
    /\ apc = "done" =>
          \A e \in Engines :
              SumLen(calls, e) = settings.retries =>
                  \A later \in Engines : later > e => calls[later] = <<>>

C10_Witness ==
    /\ apc = "done"
    /\ settings.engines = 3
    /\ settings.retries = 2
    /\ calls[1] = <<TRUE>>
    /\ calls[2] = <<TRUE>>
    /\ calls[3] = <<>>
    /\ warnings = 0

=============================================================================
